---- MODULE Spec2Model ----
(***************************************************************************)
(* A model of extract-model-info-json.                                     *)
(*                                                                         *)
(* extract_model_info (src/application.rs) walks a directory tree, and for *)
(* every directory (a "lane" of rayon's par_iter) lists its files, looks   *)
(* for a .safetensors marker and .zip archives, and asks a FilePorts       *)
(* object to extract model_info.json from every archive of a marker        *)
(* directory.  Four atomic counters are shared by the lanes; a snapshot is *)
(* four separate loads.                                                    *)
(*                                                                         *)
(* Spec   : the orchestrator against an arbitrary FilePorts trait object   *)
(*          (every port call returns any value of its return type).        *)
(* SpecFs : the orchestrator against FsPorts on a small file system, run   *)
(*          up to MaxRuns times on the same tree.                          *)
(* SpecZip: FsPorts::extract_zip_entry_if_exists called on its own on an   *)
(*          archive of up to MaxEntries entries.                           *)
(* SpecClassify: the for/match loop over one listing, on its own.          *)
(* SpecReporter: NumCallers threads calling one LineProgressReporter.      *)
(* SpecFair: Spec with every thread scheduled again and again.             *)
(* Memory model: the Relaxed atomics are modelled as sequentially          *)
(* consistent single steps, in program order.                              *)
(***************************************************************************)
EXTENDS Integers, Sequences, FiniteSets, TLC

\* ----------------------------------------------------------------- bounds
NumDirs == 2        \* directories the walk can enumerate (root is 1)
MaxZips == 2        \* .zip files in the whole tree
MaxFiles == 3       \* files in one listing
MaxRuns == 2        \* consecutive runs on the same tree (SpecFs)
MaxEntries == 2     \* entries of an archive (SpecZip)
NumCallers == 2     \* threads calling one LineProgressReporter (SpecReporter)
MaxCalls == 2       \* calls each of them makes (SpecReporter)

Lanes == 1..NumDirs

\* ------------------------------------------------------------ file names
\* A file name is a sequence of tokens; "." is the dot.
MODEL_INFO_FILE_NAME == <<"model_info", ".", "json">>
NameSafetensors == <<"model", ".", "safetensors">>
NameZipA == <<"a", ".", "zip">>
NameZipB == <<"b", ".", "zip">>
NameUpper == <<"c", ".", "ZIP">>
NameHidden == <<".", "zip">>
NameHiddenMarker == <<".", "safetensors">>
NameMixed == <<"d", ".", "SafeTensors">>
NameBackup == <<"e", ".", "zip", ".", "bak">>
NameTarZip == <<"f", ".", "tar", ".", "zip">>
NameBare == <<"readme">>

NoExt == <<>>

\* Mutant: a leading dot starts an extension too.
ExtensionAfterAnyDot(name) ==
    LET dots == {i \in 1..Len(name) : name[i] = "."}
        last == IF dots = {} THEN 0
                ELSE CHOOSE i \in dots : \A j \in dots : j <= i
    IN  IF last = 0 THEN NoExt ELSE SubSeq(name, last + 1, Len(name))

\* Path::extension of the file name: the tokens after the last dot; none
\* when there is no dot or when the only dot is the leading one.
Extension(name) ==
    LET dots == {i \in 1..Len(name) : name[i] = "."}
        last == IF dots = {} THEN 0
                ELSE CHOOSE i \in dots : \A j \in dots : j <= i
    IN  IF last <= 1 THEN NoExt ELSE SubSeq(name, last + 1, Len(name))

\* A path is a directory and a file name; Path::join and Path::extension.
PathJoin(dir, name) == [dir |-> dir, name |-> name]
PathExtension(path) == Extension(path.name)

\* ---------------------------------------------------------------- domain
ZeroStats ==
    [directories_scanned |-> 0, safetensors_directories |-> 0,
     zip_files_checked |-> 0, extracted |-> 0]

Extracted == [tag |-> "Extracted"]
NotFound == [tag |-> "NotFound"]
InvalidZip(reason) == [tag |-> "InvalidZip", reason |-> reason]

OkVal(v) == [ok |-> TRUE, val |-> v]
ErrVal(e) == [ok |-> FALSE, err |-> e]
NoErr == [kind |-> "none", dir |-> 0]
NoResult == [ok |-> FALSE, err |-> NoErr]
NoOutcome == [tag |-> "None"]
NoPath == [dir |-> 0, name |-> <<>>]

\* ------------------------------------------------- AtomicExtractStats
increment_directories(s) ==
    [s EXCEPT !.directories_scanned = @ + 1]

increment_safetensors_directories(s) ==
    [s EXCEPT !.safetensors_directories = @ + 1]

\* Mutant: a store where the code has a fetch_add.
increment_zip_files_checked_store(s) ==
    [s EXCEPT !.zip_files_checked = 1]

increment_zip_files_checked(s) ==
    [s EXCEPT !.zip_files_checked = @ + 1]

\* Mutant: the increment of extracted takes the count from zip_files_checked.
increment_extracted_moved(s) ==
    [s EXCEPT !.extracted = @ + 1, !.zip_files_checked = @ - 1]

increment_extracted(s) ==
    [s EXCEPT !.extracted = @ + 1]

\* ------------------------------------------------- directory classifier
\* The for/match loop of extract_model_info over one listing, folded from
\* the left: acc = [has_safetensors, zip_files].
\* Mutant: the zip arm sets has_safetensors too.
RECURSIVE ClassifyFromZipMarks(_, _, _)
ClassifyFromZipMarks(files, i, acc) ==
    IF i > Len(files) THEN acc
    ELSE LET ext == PathExtension(files[i])
             nxt == IF ext = <<"safetensors">>
                        THEN [acc EXCEPT !.has_safetensors = TRUE]
                    ELSE IF ext = <<"zip">>
                        THEN [acc EXCEPT !.has_safetensors = TRUE,
                                         !.zip_files = Append(@, files[i])]
                    ELSE acc
         IN  ClassifyFromZipMarks(files, i + 1, nxt)

RECURSIVE ClassifyFrom(_, _, _)
ClassifyFrom(files, i, acc) ==
    IF i > Len(files) THEN acc
    ELSE LET ext == PathExtension(files[i])
             nxt == IF ext = <<"safetensors">>
                        THEN [acc EXCEPT !.has_safetensors = TRUE]
                    ELSE IF ext = <<"zip">>
                        THEN [acc EXCEPT !.zip_files = Append(@, files[i])]
                    ELSE acc
         IN  ClassifyFrom(files, i + 1, nxt)

Classify(files) ==
    ClassifyFrom(files, 1, [has_safetensors |-> FALSE, zip_files |-> <<>>])


\* ------------------------------------------------------------- variables
VARIABLES
    ports,            \* "dyn": any FilePorts object; "FsPorts": the real one
    fs,               \* the file system FsPorts works on
    run,              \* number of the current run (1..MaxRuns)
    prev,             \* what the previous run returned
    ret,              \* what a function called on its own returned
    arg,              \* the listing handed to the classifier (SpecClassify)
    reporter,         \* a LineProgressReporter and its callers (SpecReporter)
    pcMain,           \* position of extract_model_info's calling thread
    directories,      \* the Vec filled by for_each_directory
    stats,            \* AtomicExtractStats
    final_stats,      \* the local final_stats
    result,           \* the value extract_model_info returned
    full,             \* rayon's short-circuit flag of try_for_each
    pc,               \* position of each lane's closure
    has_safetensors,  \* lane locals
    zip_files,        \*   (zip_files holds the archives not yet iterated)
    zip_path,
    outcome,
    snapshot,         \* the loads of stats.snapshot() done so far
    laneErr,          \* the Err a lane's closure returned
    \* -- observations (never read by the program)
    nStart, nFinish, finishArg,   \* on_start / on_finish calls and argument
    nUpdate,                      \* on_update calls
    updateArgs,                   \* on_update arguments: the last, and the
                                  \* greatest so far in each field
    nInvalid,                     \* on_invalid_zip calls
    iter,                         \* what the lane did in this loop iteration
    marker,                       \* the running lane's listing has a marker
    truth,                        \* what the listings and outcomes add up to
    zipsSeen,                     \* archives listed so far (bounded by MaxZips)
    owed,                         \* on_update calls a lane has yet to make
    calls                         \* inspection calls and their outcomes

envVars == <<ports, fs, run, prev, ret, arg, reporter>>
mainVars == <<pcMain, directories, final_stats, result>>
localVars == <<has_safetensors, zip_files, zip_path, outcome>>
listObs == <<marker, zipsSeen, owed, calls>>
notifyObs ==
    <<nStart, nFinish, finishArg, nUpdate, updateArgs, nInvalid>>
vars == <<envVars, mainVars, stats, full, pc, localVars, snapshot, laneErr,
          listObs, iter, truth, notifyObs>>

\* The per-field maximum of two ExtractStats.
Max(a, b) == IF a >= b THEN a ELSE b
FieldMax(s, t) ==
    [directories_scanned |-> Max(s.directories_scanned, t.directories_scanned),
     safetensors_directories |->
         Max(s.safetensors_directories, t.safetensors_directories),
     zip_files_checked |-> Max(s.zip_files_checked, t.zip_files_checked),
     extracted |-> Max(s.extracted, t.extracted)]
\* No on_update yet; on_update(&snapshot) delivered.
NoUpdateArgs == [last |-> ZeroStats, max |-> ZeroStats]
Delivered(u, s) == [last |-> s, max |-> FieldMax(u.max, s)]

EnumErr == [kind |-> "enum", dir |-> 0]
ListErr(d) == [kind |-> "list", dir |-> d]
InspectErr(d) == [kind |-> "inspect", dir |-> d]

NoCall == [zip_path |-> NoPath, entry_name |-> <<>>, output_dir |-> 0]
NoNotice == [zip_path |-> NoPath, reason |-> "none"]
\* counted: zip_files_checked was incremented for the archive; call: the
\* arguments of the inspection call; notice: those of on_invalid_zip.
NoIter == [counted |-> FALSE, call |-> NoCall, notice |-> NoNotice]
\* Inspection calls made in this run, and how many returned NotFound and
\* InvalidZip.
NoCalls == [inspect |-> 0, not_found |-> 0, invalid_zip |-> 0]
\* No LineProgressReporter is in use.
NoReporter == [threads |-> <<>>]

\* ------------------------------------------------ &dyn FilePorts (trait)
\* Any implementation of the trait: each call returns any value of its
\* return type, drawn here from small sets.
DynNames == {NameSafetensors, NameZipA, NameZipB, NameUpper}
DynReasons == {"r1", "r2"}

Distinct(s) == \A i, j \in 1..Len(s) : i # j => s[i] # s[j]
ZipCount(s) == Cardinality({i \in 1..Len(s) : Extension(s[i]) = <<"zip">>})
NameSeqs ==
    UNION {[1..n -> DynNames] : n \in 0..MaxFiles}
DynNameLists ==
    [budget \in 0..MaxZips |->
        {s \in NameSeqs : Distinct(s) /\ ZipCount(s) <= budget}]
DynListings(d, budget) ==
    {[i \in 1..Len(s) |-> PathJoin(d, s[i])] : s \in DynNameLists[budget]}

DynForEachDirectory ==
    {OkVal([i \in 1..n |-> i]) : n \in 0..NumDirs} \cup {ErrVal(EnumErr)}

DynListFilesInDir(d, budget) ==
    {OkVal(l) : l \in DynListings(d, budget)} \cup {ErrVal(ListErr(d))}

DynOutcomes ==
    {OkVal(Extracted), OkVal(NotFound)}
        \cup {OkVal(InvalidZip(r)) : r \in DynReasons}

DynExtractZipEntryIfExists(d) ==
    DynOutcomes \cup {ErrVal(InspectErr(d))}

\* ------------------------------------------------------------ file system
\* fs = [walk_ok, dirs]: dirs[d] is the d-th directory of the tree under the
\* root, each nested in the one before (dirs[1] is the root itself).  A
\* directory holds files in read_dir order; a file has bytes (data) and
\* what the zip reader finds in them (zip).  Faults are properties of the
\* tree: walk_ok, list_ok (read_dir), create_ok (File::create of the output),
\* open_ok (File::open), index_ok (ZipArchive::new), read_ok (by_index),
\* copy_ok (io::copy).
NotZip == [index_ok |-> FALSE, entries |-> <<>>]
Zip(entries) == [index_ok |-> TRUE, entries |-> entries]
ZipEntry(path, is_dir, data) ==
    [path |-> path, is_dir |-> is_dir, read_ok |-> TRUE, copy_ok |-> TRUE,
     data |-> data]
FsFile(name, data, zip) ==
    [name |-> name, open_ok |-> TRUE, data |-> data, zip |-> zip]
FsDir(files) == [list_ok |-> TRUE, create_ok |-> TRUE, files |-> files]
EmptyFs == [walk_ok |-> TRUE, dirs |-> <<>>]

\* The name of the directory nested in another one.
NameSubDir == <<"lora", ".", "safetensors">>

\* Mutant: the whole entry name is compared, so only a top-level entry has
\* a file name.
FileNameWhole(path) == IF Len(path) = 1 THEN path[1] ELSE <<>>

\* Path::file_name of an archive entry's name: the last component.
FileName(path) == IF path = <<>> THEN <<>> ELSE path[Len(path)]

\* The position of the file called name in directory d (0: no such file).
FileIndex(f, d, name) ==
    LET hits == {i \in 1..Len(f.dirs[d].files) : f.dirs[d].files[i].name = name}
    IN  IF hits = {} THEN 0 ELSE CHOOSE i \in hits : TRUE

\* Mutant: an existing file is left as it is (create_new without the error).
WriteFileKeep(f, d, name, data) ==
    LET i == FileIndex(f, d, name)
        w == FsFile(name, data, NotZip)
    IN  [f EXCEPT !.dirs[d].files =
            IF i = 0 THEN Append(@, w) ELSE @]

\* fs::File::create followed by writing data: an existing file is truncated
\* and keeps its place, a new one is added to the directory.
WriteFile(f, d, name, data) ==
    LET i == FileIndex(f, d, name)
        w == FsFile(name, data, NotZip)
    IN  [f EXCEPT !.dirs[d].files =
            IF i = 0 THEN Append(@, w) ELSE [@ EXCEPT ![i] = w]]

\* ------------------------------------------------------------- FsPorts
\* WalkDir::new(root): the directories of the tree, parents first.
FsForEachDirectory(f) ==
    IF f.walk_ok THEN OkVal([i \in 1..Len(f.dirs) |-> i]) ELSE ErrVal(EnumErr)

\* fs::read_dir(dir): the files and the nested directory.
ReadDir(f, d) ==
    [i \in 1..Len(f.dirs[d].files) |->
        [name |-> f.dirs[d].files[i].name, is_file |-> TRUE]]
    \o (IF d < Len(f.dirs) THEN <<[name |-> NameSubDir, is_file |-> FALSE]>>
        ELSE <<>>)

RECURSIVE FilesOf(_, _)
FilesOf(d, entries) ==
    IF entries = <<>> THEN <<>>
    ELSE (IF Head(entries).is_file
          THEN <<PathJoin(d, Head(entries).name)>> ELSE <<>>)
         \o FilesOf(d, Tail(entries))

FsListFilesInDir(f, d) ==
    IF f.dirs[d].list_ok THEN OkVal(FilesOf(d, ReadDir(f, d)))
    ELSE ErrVal(ListErr(d))

\* The loop `for index in 0..archive.len()` from entry i on.  Each result
\* is [res, fs]: what is returned and the file system left behind.  A copy
\* that fails leaves the created file empty or with the bytes written.
RECURSIVE ScanEntries(_, _, _, _, _)
ScanEntries(f, entries, i, entry_name, output_dir) ==
    IF i > Len(entries) THEN {[res |-> OkVal(NotFound), fs |-> f]}
    ELSE LET entry == entries[i]
         IN  IF ~entry.read_ok
                 THEN {[res |-> OkVal(InvalidZip("by_index")), fs |-> f]}
             ELSE IF entry.is_dir
                 THEN ScanEntries(f, entries, i + 1, entry_name, output_dir)
             ELSE IF FileName(entry.path) = entry_name
                 THEN IF ~f.dirs[output_dir].create_ok
                          THEN {[res |-> OkVal(InvalidZip("create")), fs |-> f]}
                      ELSE IF ~entry.copy_ok
                          THEN {[res |-> OkVal(InvalidZip("copy")),
                                 fs |-> WriteFile(f, output_dir, entry_name, b)] :
                                    b \in {"", entry.data}}
                      ELSE {[res |-> OkVal(Extracted),
                             fs |-> WriteFile(f, output_dir, entry_name, entry.data)]}
             ELSE ScanEntries(f, entries, i + 1, entry_name, output_dir)

\* Mutant: a ZipArchive::new failure is returned with `?`.
FsExtractZipEntryIfExistsTry(f, zp, entry_name, output_dir) ==
    LET i == IF zp.dir \in 1..Len(f.dirs) THEN FileIndex(f, zp.dir, zp.name)
             ELSE 0
    IN  IF i = 0 \/ ~f.dirs[zp.dir].files[i].open_ok
            THEN {[res |-> OkVal(InvalidZip("open")), fs |-> f]}
        ELSE IF ~f.dirs[zp.dir].files[i].zip.index_ok
            THEN {[res |-> ErrVal(InspectErr(output_dir)), fs |-> f]}
        ELSE ScanEntries(f, f.dirs[zp.dir].files[i].zip.entries, 1,
                         entry_name, output_dir)

FsExtractZipEntryIfExists(f, zp, entry_name, output_dir) ==
    LET i == IF zp.dir \in 1..Len(f.dirs) THEN FileIndex(f, zp.dir, zp.name)
             ELSE 0
    IN  IF i = 0 \/ ~f.dirs[zp.dir].files[i].open_ok
            THEN {[res |-> OkVal(InvalidZip("open")), fs |-> f]}
        ELSE IF ~f.dirs[zp.dir].files[i].zip.index_ok
            THEN {[res |-> OkVal(InvalidZip("index")), fs |-> f]}
        ELSE ScanEntries(f, f.dirs[zp.dir].files[i].zip.entries, 1,
                         entry_name, output_dir)

\* ------------------------------------------------- the trees of SpecFs
NameZipBad == <<"bad", ".", "zip">>

\* a.zip: a directory entry with the target's name, then the target nested
\* in a folder, then the target again with other bytes.
ArchiveWithTarget ==
    Zip(<<ZipEntry(<<MODEL_INFO_FILE_NAME>>, TRUE, ""),
          ZipEntry(<<<<"meta">>, MODEL_INFO_FILE_NAME>>, FALSE, "v1"),
          ZipEntry(<<MODEL_INFO_FILE_NAME>>, FALSE, "v2")>>)
\* z.zip: the target with bytes of its own.
NameZipLast == <<"z", ".", "zip">>
ArchiveWithOtherTarget ==
    Zip(<<ZipEntry(<<MODEL_INFO_FILE_NAME>>, FALSE, "v4")>>)
\* b.zip: no entry with the target's name.
ArchiveWithoutTarget ==
    Zip(<<ZipEntry(<<<<"readme">>>>, FALSE, "v3")>>)

\* The files a directory of the tree may hold, in read_dir order.
FsCandidates ==
    <<FsFile(MODEL_INFO_FILE_NAME, "old", NotZip),
      FsFile(NameSafetensors, "weights", NotZip),
      FsFile(NameZipA, "za", ArchiveWithTarget),
      FsFile(NameZipB, "zb", ArchiveWithoutTarget),
      FsFile(NameZipBad, "not a zip", NotZip),
      FsFile(NameZipLast, "zz", ArchiveWithOtherTarget)>>

RECURSIVE SelectFrom(_, _, _)
SelectFrom(seq, S, i) ==
    IF i > Len(seq) THEN <<>>
    ELSE (IF i \in S THEN <<seq[i]>> ELSE <<>>) \o SelectFrom(seq, S, i + 1)

FsZipCount(files) ==
    Cardinality({i \in 1..Len(files) : Extension(files[i].name) = <<"zip">>})

FsFileLists ==
    {l \in {SelectFrom(FsCandidates, S, 1) : S \in SUBSET (1..Len(FsCandidates))} :
        Len(l) <= MaxFiles /\ FsZipCount(l) <= MaxZips}

\* A directory that cannot be listed, or one that holds some of the files.
FsDirs ==
    {[list_ok |-> FALSE, create_ok |-> TRUE, files |-> <<>>]}
        \cup {FsDir(l) : l \in FsFileLists}

RECURSIVE FsDirSeqs(_, _)
FsDirSeqs(n, budget) ==
    IF n = 0 THEN {<<>>}
    ELSE UNION {{<<d>> \o t : t \in FsDirSeqs(n - 1, budget - FsZipCount(d.files))} :
                    d \in {x \in FsDirs : FsZipCount(x.files) <= budget}}

\* A root that cannot be walked, or a tree of up to NumDirs directories
\* holding up to MaxZips archives.
FsTrees ==
    {[walk_ok |-> FALSE, dirs |-> <<>>]}
        \cup {[walk_ok |-> TRUE, dirs |-> ds] :
                 ds \in UNION {FsDirSeqs(n, MaxZips) : n \in 0..NumDirs}}

\* ------------------------------------------------------- port dispatch
\* What a port call can return, and the file system it leaves.
ForEachDirectoryResults ==
    IF ports = "dyn" THEN DynForEachDirectory ELSE {FsForEachDirectory(fs)}

ListFilesInDirResults(d) ==
    IF ports = "dyn" THEN DynListFilesInDir(d, MaxZips - zipsSeen)
    ELSE {FsListFilesInDir(fs, d)}

ExtractResults(zp, entry_name, output_dir) ==
    IF ports = "dyn"
    THEN {[res |-> r, fs |-> fs] : r \in DynExtractZipEntryIfExists(output_dir)}
    ELSE FsExtractZipEntryIfExists(fs, zp, entry_name, output_dir)

\* What the listing of a directory truly holds (observation only).
HasMarker(files) ==
    \E i \in 1..Len(files) : PathExtension(files[i]) = <<"safetensors">>
ZipsListed(files) ==
    Cardinality({i \in 1..Len(files) : PathExtension(files[i]) = <<"zip">>})

\* ------------------------------------------------------------------ Init
InitRun ==
    /\ pcMain = "start"
    /\ directories = <<>>
    /\ stats = ZeroStats
    /\ final_stats = ZeroStats
    /\ result = NoResult
    /\ full = FALSE
    /\ pc = [d \in Lanes |-> "idle"]
    /\ has_safetensors = [d \in Lanes |-> FALSE]
    /\ zip_files = [d \in Lanes |-> <<>>]
    /\ zip_path = [d \in Lanes |-> NoPath]
    /\ outcome = [d \in Lanes |-> NoOutcome]
    /\ snapshot = [d \in Lanes |-> ZeroStats]
    /\ laneErr = [d \in Lanes |-> NoErr]
    /\ nStart = 0 /\ nFinish = 0 /\ finishArg = ZeroStats
    /\ nUpdate = 0
    /\ updateArgs = NoUpdateArgs
    /\ nInvalid = 0
    /\ iter = [d \in Lanes |-> NoIter]
    /\ marker = [d \in Lanes |-> FALSE]
    /\ truth = ZeroStats
    /\ zipsSeen = 0
    /\ owed = [d \in Lanes |-> 0]
    /\ calls = NoCalls

Init ==
    /\ ports = "dyn"
    /\ fs = EmptyFs
    /\ run = 1
    /\ prev = NoResult
    /\ ret = NoResult
    /\ arg = <<>>
    /\ reporter = NoReporter
    /\ InitRun

\* FsPorts on one of the trees.
InitFs ==
    /\ ports = "FsPorts"
    /\ fs \in FsTrees
    /\ run = 1
    /\ prev = NoResult
    /\ ret = NoResult
    /\ arg = <<>>
    /\ reporter = NoReporter
    /\ InitRun

\* -------------------------------------------- extract_model_info: main
\* progress.on_start(root)
OnStart ==
    /\ pcMain = "start"
    /\ nStart' = nStart + 1
    /\ pcMain' = "enumerate"
    /\ UNCHANGED <<envVars, directories, final_stats, result, stats, full, pc,
                   localVars, snapshot, laneErr, listObs, iter, truth,
                   nFinish, finishArg, nUpdate, updateArgs, nInvalid>>

\* Mutant: the Err of for_each_directory is kept for later and the lanes of
\* the directories pushed so far are run.
ForEachDirectoryLate ==
    /\ pcMain = "enumerate"
    /\ \E r \in ForEachDirectoryResults :
          IF r.ok
          THEN /\ directories' = r.val
               /\ pcMain' = "fanout"
               /\ truth' = [truth EXCEPT !.directories_scanned = Len(r.val)]
               /\ result' = result
          ELSE /\ directories' = <<1>>
               /\ pcMain' = "fanout"
               /\ truth' = truth
               /\ result' = ErrVal(r.err)
    /\ UNCHANGED <<envVars, final_stats, stats, full, pc, localVars, snapshot,
                   laneErr, listObs, iter, notifyObs>>

\* ports.for_each_directory(root, push)?
ForEachDirectory ==
    /\ pcMain = "enumerate"
    /\ \E r \in ForEachDirectoryResults :
          IF r.ok
          THEN /\ directories' = r.val
               /\ pcMain' = "fanout"
               /\ truth' = [truth EXCEPT !.directories_scanned = Len(r.val)]
               /\ result' = result
          ELSE /\ directories' = directories
               /\ pcMain' = "done"
               /\ truth' = truth
               /\ result' = ErrVal(r.err)
    /\ UNCHANGED <<envVars, final_stats, stats, full, pc, localVars, snapshot,
                   laneErr, listObs, iter, notifyObs>>

Active == 1..Len(directories)
Ended(d) == pc[d] \in {"done", "failed", "skipped"}

\* Mutant: the result of try_for_each is dropped instead of returned by `?`.
JoinLanesSwallow ==
    /\ pcMain = "fanout"
    /\ \A d \in Active : Ended(d)
    /\ pcMain' = "snapshot"
    /\ UNCHANGED <<envVars, directories, final_stats, result, stats, full, pc,
                   localVars, snapshot, laneErr, listObs, iter, truth,
                   notifyObs>>

\* try_for_each returns: every item was run to its end or never taken.
\* An Err of one of the lanes is returned by `?`; otherwise the run goes on.
JoinLanes ==
    /\ pcMain = "fanout"
    /\ \A d \in Active : Ended(d)
    /\ LET failed == {d \in Active : pc[d] = "failed"}
       IN  IF failed = {}
           THEN /\ pcMain' = "snapshot"
                /\ result' = result
           ELSE /\ pcMain' = "done"
                /\ \E d \in failed : result' = ErrVal(laneErr[d])
    /\ UNCHANGED <<envVars, directories, final_stats, stats, full, pc,
                   localVars, snapshot, laneErr, listObs, iter, truth,
                   notifyObs>>

\* Mutant: the final snapshot is the one from before the fan-out.
FinalSnapshotEarly ==
    /\ pcMain = "snapshot"
    /\ final_stats' = ZeroStats
    /\ pcMain' = "on_finish"
    /\ UNCHANGED <<envVars, directories, result, stats, full, pc, localVars,
                   snapshot, laneErr, listObs, iter, truth, notifyObs>>

\* let final_stats = stats.snapshot(): no lane is running any more, so the
\* four loads are one step.
FinalSnapshot ==
    /\ pcMain = "snapshot"
    /\ final_stats' = stats
    /\ pcMain' = "on_finish"
    /\ UNCHANGED <<envVars, directories, result, stats, full, pc, localVars,
                   snapshot, laneErr, listObs, iter, truth, notifyObs>>

\* Mutant: on_finish is handed a fresh ExtractStats::default().
OnFinishDefault ==
    /\ pcMain = "on_finish"
    /\ nFinish' = nFinish + 1
    /\ finishArg' = ZeroStats
    /\ pcMain' = "return"
    /\ UNCHANGED <<envVars, directories, final_stats, result, stats, full, pc,
                   localVars, snapshot, laneErr, listObs, iter, truth,
                   nStart, nUpdate, updateArgs, nInvalid>>

\* progress.on_finish(&final_stats)
OnFinish ==
    /\ pcMain = "on_finish"
    /\ nFinish' = nFinish + 1
    /\ finishArg' = final_stats
    /\ pcMain' = "return"
    /\ UNCHANGED <<envVars, directories, final_stats, result, stats, full, pc,
                   localVars, snapshot, laneErr, listObs, iter, truth,
                   nStart, nUpdate, updateArgs, nInvalid>>

\* Ok(final_stats)
ReturnOk ==
    /\ pcMain = "return"
    /\ result' = OkVal(final_stats)
    /\ pcMain' = "done"
    /\ UNCHANGED <<envVars, directories, final_stats, stats, full, pc,
                   localVars, snapshot, laneErr, listObs, iter, truth,
                   notifyObs>>

\* --------------------------------- extract_model_info: one lane (closure)
SetLane(f, d, v) == [f EXCEPT ![d] = v]

\* rayon takes the item (the flag `full` is not set) and the closure begins:
\* stats.increment_directories()
LaneStart(d) ==
    /\ pcMain = "fanout" /\ d \in Active
    /\ pc[d] = "idle" /\ ~full
    /\ stats' = increment_directories(stats)
    /\ pc' = SetLane(pc, d, "list")
    /\ UNCHANGED <<envVars, mainVars, full, localVars, snapshot, laneErr,
                   listObs, iter, truth, notifyObs>>

\* Mutant: an item is given up only once some other item has finished well.
LaneSkipAfterDone(d) ==
    /\ pcMain = "fanout" /\ d \in Active
    /\ pc[d] = "idle" /\ full
    /\ \E e \in Active : pc[e] = "done"
    /\ pc' = SetLane(pc, d, "skipped")
    /\ UNCHANGED <<envVars, mainVars, stats, full, localVars, snapshot,
                   laneErr, listObs, iter, truth, notifyObs>>

\* rayon never takes the item: an earlier item has returned Err.
LaneSkip(d) ==
    /\ pcMain = "fanout" /\ d \in Active
    /\ pc[d] = "idle" /\ full
    /\ pc' = SetLane(pc, d, "skipped")
    /\ UNCHANGED <<envVars, mainVars, stats, full, localVars, snapshot,
                   laneErr, listObs, iter, truth, notifyObs>>

\* The closure returns: its locals are dropped (and with them what was
\* observed about this lane's current iteration).
DropLocals(d) ==
    /\ has_safetensors' = SetLane(has_safetensors, d, FALSE)
    /\ zip_files' = SetLane(zip_files, d, <<>>)
    /\ zip_path' = SetLane(zip_path, d, NoPath)
    /\ outcome' = SetLane(outcome, d, NoOutcome)
    /\ marker' = SetLane(marker, d, FALSE)
    /\ iter' = SetLane(iter, d, NoIter)

\* The closure returns Err(e) through `?`: rayon sets `full`.
LaneFails(d, e) ==
    /\ pc' = SetLane(pc, d, "failed")
    /\ laneErr' = SetLane(laneErr, d, e)
    /\ full' = TRUE
    /\ DropLocals(d)

\* let files = ports.list_files_in_dir(dir_path)?; and the for/match loop
ListFiles(d) ==
    /\ pc[d] = "list"
    /\ \E r \in ListFilesInDirResults(directories[d]) :
          IF r.ok
          THEN LET c == Classify(r.val)
                   m == HasMarker(r.val)
                   z == ZipsListed(r.val)
               IN  /\ has_safetensors' = SetLane(has_safetensors, d, c.has_safetensors)
                   /\ zip_files' = SetLane(zip_files, d, c.zip_files)
                   /\ pc' = SetLane(pc, d, IF c.has_safetensors
                                              THEN "inc_safetensors"
                                              ELSE "load_directories")
                   /\ marker' = SetLane(marker, d, m)
                   /\ zipsSeen' = zipsSeen + z
                   /\ owed' = SetLane(owed, d, 1 + (IF m THEN z ELSE 0))
                   /\ truth' = IF m
                       THEN [truth EXCEPT !.safetensors_directories = @ + 1,
                                          !.zip_files_checked = @ + z]
                       ELSE truth
                   /\ UNCHANGED <<zip_path, outcome, laneErr, full, iter>>
          ELSE /\ LaneFails(d, r.err)
               /\ UNCHANGED <<zipsSeen, truth, owed>>
    /\ UNCHANGED <<envVars, mainVars, stats, snapshot, nStart, nFinish,
                   finishArg, nUpdate, updateArgs, nInvalid, calls>>

\* stats.increment_safetensors_directories()
IncrementSafetensors(d) ==
    /\ pc[d] = "inc_safetensors"
    /\ stats' = increment_safetensors_directories(stats)
    /\ pc' = SetLane(pc, d, "load_directories")
    /\ UNCHANGED <<envVars, mainVars, full, localVars, snapshot, laneErr,
                   listObs, iter, truth, notifyObs>>

\* stats.snapshot(): four loads, one step each, other lanes in between.
LoadDirectoriesScanned(d) ==
    /\ pc[d] = "load_directories"
    /\ snapshot' = SetLane(snapshot, d,
           [snapshot[d] EXCEPT !.directories_scanned = stats.directories_scanned])
    /\ pc' = SetLane(pc, d, "load_safetensors")
    /\ UNCHANGED <<envVars, mainVars, stats, full, localVars, laneErr,
                   listObs, iter, truth, notifyObs>>

LoadSafetensorsDirectories(d) ==
    /\ pc[d] = "load_safetensors"
    /\ snapshot' = SetLane(snapshot, d,
           [snapshot[d] EXCEPT !.safetensors_directories = stats.safetensors_directories])
    /\ pc' = SetLane(pc, d, "load_zip")
    /\ UNCHANGED <<envVars, mainVars, stats, full, localVars, laneErr,
                   listObs, iter, truth, notifyObs>>

LoadZipFilesChecked(d) ==
    /\ pc[d] = "load_zip"
    /\ snapshot' = SetLane(snapshot, d,
           [snapshot[d] EXCEPT !.zip_files_checked = stats.zip_files_checked])
    /\ pc' = SetLane(pc, d, "load_extracted")
    /\ UNCHANGED <<envVars, mainVars, stats, full, localVars, laneErr,
                   listObs, iter, truth, notifyObs>>

LoadExtracted(d) ==
    /\ pc[d] = "load_extracted"
    /\ snapshot' = SetLane(snapshot, d,
           [snapshot[d] EXCEPT !.extracted = stats.extracted])
    /\ pc' = SetLane(pc, d, "on_update")
    /\ UNCHANGED <<envVars, mainVars, stats, full, localVars, laneErr,
                   listObs, iter, truth, notifyObs>>

\* Mutant: the archives are taken from the back of zip_files.
OnUpdateFromBack(d) ==
    /\ pc[d] = "on_update"
    /\ nUpdate' = nUpdate + 1
    /\ updateArgs' = Delivered(updateArgs, snapshot[d])
    /\ owed' = SetLane(owed, d, owed[d] - 1)
    /\ snapshot' = SetLane(snapshot, d, ZeroStats)
    /\ IF has_safetensors[d] /\ zip_files[d] # <<>>
       THEN /\ zip_path' = SetLane(zip_path, d, zip_files[d][Len(zip_files[d])])
            /\ zip_files' = SetLane(zip_files, d,
                                SubSeq(zip_files[d], 1, Len(zip_files[d]) - 1))
            /\ pc' = SetLane(pc, d, "inc_zip")
            /\ iter' = SetLane(iter, d, NoIter)
            /\ UNCHANGED <<has_safetensors, outcome, marker>>
       ELSE /\ pc' = SetLane(pc, d, "done")
            /\ DropLocals(d)
    /\ UNCHANGED <<envVars, mainVars, stats, full, laneErr, zipsSeen, truth,
                   nStart, nFinish, finishArg, nInvalid, calls>>

\* progress.on_update(&snapshot); then the next `for zip_path in zip_files`
\* of a marker directory, or Ok(()).
OnUpdate(d) ==
    /\ pc[d] = "on_update"
    /\ nUpdate' = nUpdate + 1
    /\ updateArgs' = Delivered(updateArgs, snapshot[d])
    /\ owed' = SetLane(owed, d, owed[d] - 1)
    /\ snapshot' = SetLane(snapshot, d, ZeroStats)
    /\ IF has_safetensors[d] /\ zip_files[d] # <<>>
       THEN /\ zip_path' = SetLane(zip_path, d, Head(zip_files[d]))
            /\ zip_files' = SetLane(zip_files, d, Tail(zip_files[d]))
            /\ pc' = SetLane(pc, d, "inc_zip")
            /\ iter' = SetLane(iter, d, NoIter)
            /\ UNCHANGED <<has_safetensors, outcome, marker>>
       ELSE /\ pc' = SetLane(pc, d, "done")
            /\ DropLocals(d)
    /\ UNCHANGED <<envVars, mainVars, stats, full, laneErr, zipsSeen, truth,
                   nStart, nFinish, finishArg, nInvalid, calls>>

\* Mutant: the archive is counted and then skipped, without the call.
IncrementZipFilesCheckedSkip(d) ==
    /\ pc[d] = "inc_zip"
    /\ stats' = increment_zip_files_checked(stats)
    /\ iter' = SetLane(iter, d, [iter[d] EXCEPT !.counted = TRUE])
    /\ pc' = SetLane(pc, d, "load_directories")
    /\ UNCHANGED <<envVars, mainVars, full, localVars, snapshot, laneErr,
                   listObs, truth, notifyObs>>

\* stats.increment_zip_files_checked()
IncrementZipFilesChecked(d) ==
    /\ pc[d] = "inc_zip"
    /\ stats' = increment_zip_files_checked(stats)
    /\ iter' = SetLane(iter, d, [iter[d] EXCEPT !.counted = TRUE])
    /\ pc' = SetLane(pc, d, "inspect")
    /\ UNCHANGED <<envVars, mainVars, full, localVars, snapshot, laneErr,
                   listObs, truth, notifyObs>>

\* Mutant: the output directory is the root, not the lane's directory.
InspectArgsRoot(d) ==
    [zip_path |-> zip_path[d], entry_name |-> MODEL_INFO_FILE_NAME,
     output_dir |-> directories[1]]

\* The arguments of the inspection call of lane d.
InspectArgs(d) ==
    [zip_path |-> zip_path[d], entry_name |-> MODEL_INFO_FILE_NAME,
     output_dir |-> directories[d]]

\* let outcome = ports.extract_zip_entry_if_exists(&zip_path,
\*     MODEL_INFO_FILE_NAME, dir_path)?;
Inspect(d) ==
    /\ pc[d] = "inspect"
    /\ LET a == InspectArgs(d)
       IN  \E x \in ExtractResults(a.zip_path, a.entry_name, a.output_dir) :
              /\ fs' = x.fs
              /\ calls' = [calls EXCEPT
                    !.inspect = @ + 1,
                    !.not_found = IF x.res = OkVal(NotFound) THEN @ + 1 ELSE @,
                    !.invalid_zip = IF x.res.ok /\ x.res.val.tag = "InvalidZip"
                                    THEN @ + 1 ELSE @]
              /\ IF x.res.ok
                 THEN /\ outcome' = SetLane(outcome, d, x.res.val)
                      /\ pc' = SetLane(pc, d, "match")
                      /\ iter' = SetLane(iter, d, [iter[d] EXCEPT !.call = a])
                      /\ truth' = IF x.res.val = Extracted
                            THEN [truth EXCEPT !.extracted = @ + 1]
                            ELSE truth
                      /\ UNCHANGED <<has_safetensors, zip_files, zip_path,
                                     laneErr, full, marker>>
                 ELSE /\ LaneFails(d, x.res.err)
                      /\ UNCHANGED truth
    /\ UNCHANGED <<ports, run, prev, ret, arg, reporter, mainVars, stats,
                   snapshot, zipsSeen, owed,
                   nStart, nFinish, finishArg, nUpdate, updateArgs, nInvalid>>

\* Mutant: the loop over the archives ends at the first Extracted.
MatchExtractedBreak(d) ==
    /\ pc[d] = "match" /\ outcome[d].tag = "Extracted"
    /\ stats' = increment_extracted(stats)
    /\ outcome' = SetLane(outcome, d, NoOutcome)
    /\ zip_files' = SetLane(zip_files, d, <<>>)
    /\ pc' = SetLane(pc, d, "load_directories")
    /\ UNCHANGED <<envVars, mainVars, full, has_safetensors,
                   zip_path, snapshot, laneErr, listObs, iter, truth,
                   notifyObs>>

\* ZipEntryOutcome::Extracted => stats.increment_extracted()
MatchExtracted(d) ==
    /\ pc[d] = "match" /\ outcome[d].tag = "Extracted"
    /\ stats' = increment_extracted(stats)
    /\ outcome' = SetLane(outcome, d, NoOutcome)
    /\ pc' = SetLane(pc, d, "load_directories")
    /\ UNCHANGED <<envVars, mainVars, full, has_safetensors, zip_files,
                   zip_path, snapshot, laneErr, listObs, iter, truth,
                   notifyObs>>

\* Mutant: the InvalidZip arm is empty, like the NotFound arm.
MatchInvalidZipSilent(d) ==
    /\ pc[d] = "match" /\ outcome[d].tag = "InvalidZip"
    /\ outcome' = SetLane(outcome, d, NoOutcome)
    /\ pc' = SetLane(pc, d, "load_directories")
    /\ UNCHANGED <<envVars, mainVars, stats, full, has_safetensors, zip_files,
                   zip_path, snapshot, laneErr, listObs, iter, truth,
                   notifyObs>>

\* ZipEntryOutcome::InvalidZip(reason) =>
\*     progress.on_invalid_zip(&zip_path, &reason)
MatchInvalidZip(d) ==
    /\ pc[d] = "match" /\ outcome[d].tag = "InvalidZip"
    /\ nInvalid' = nInvalid + 1
    /\ iter' = SetLane(iter, d, [iter[d] EXCEPT !.notice =
           [zip_path |-> zip_path[d], reason |-> outcome[d].reason]])
    /\ outcome' = SetLane(outcome, d, NoOutcome)
    /\ pc' = SetLane(pc, d, "load_directories")
    /\ UNCHANGED <<envVars, mainVars, stats, full, has_safetensors, zip_files,
                   zip_path, snapshot, laneErr, listObs, truth,
                   nStart, nFinish, finishArg, nUpdate, updateArgs>>

\* Mutant: the NotFound arm counts the archive as extracted.
MatchNotFoundCounts(d) ==
    /\ pc[d] = "match" /\ outcome[d].tag = "NotFound"
    /\ stats' = increment_extracted(stats)
    /\ outcome' = SetLane(outcome, d, NoOutcome)
    /\ pc' = SetLane(pc, d, "load_directories")
    /\ UNCHANGED <<envVars, mainVars, full, has_safetensors, zip_files,
                   zip_path, snapshot, laneErr, listObs, iter, truth,
                   notifyObs>>

\* ZipEntryOutcome::NotFound => {}
MatchNotFound(d) ==
    /\ pc[d] = "match" /\ outcome[d].tag = "NotFound"
    /\ outcome' = SetLane(outcome, d, NoOutcome)
    /\ pc' = SetLane(pc, d, "load_directories")
    /\ UNCHANGED <<envVars, mainVars, stats, full, has_safetensors, zip_files,
                   zip_path, snapshot, laneErr, listObs, iter, truth,
                   notifyObs>>

Lane(d) ==
    \/ LaneStart(d)
    \/ LaneSkip(d)
    \/ ListFiles(d)
    \/ IncrementSafetensors(d)
    \/ LoadDirectoriesScanned(d)
    \/ LoadSafetensorsDirectories(d)
    \/ LoadZipFilesChecked(d)
    \/ LoadExtracted(d)
    \/ OnUpdate(d)
    \/ IncrementZipFilesChecked(d)
    \/ Inspect(d)
    \/ MatchExtracted(d)
    \/ MatchInvalidZip(d)
    \/ MatchNotFound(d)

Main ==
    \/ OnStart
    \/ ForEachDirectory
    \/ JoinLanes
    \/ FinalSnapshot
    \/ OnFinish
    \/ ReturnOk

Next ==
    \/ Main
    \/ \E d \in Lanes : Lane(d)

Spec == Init /\ [][Next]_vars

\* Every port call and every notifier call returns, and rayon's workers and
\* the calling thread keep being scheduled: every thread that can take a
\* step eventually takes one.
Fairness ==
    /\ WF_vars(Main)
    /\ \A d \in Lanes : WF_vars(Lane(d))

SpecFair == Spec /\ Fairness

\* -------------------------------------------------- a second run (SpecFs)
\* extract_model_info has returned and is called again on the same tree.
Restart ==
    /\ ports = "FsPorts"
    /\ pcMain = "done" /\ run < MaxRuns
    /\ run' = run + 1
    /\ prev' = result
    /\ pcMain' = "start"
    /\ directories' = <<>>
    /\ stats' = ZeroStats
    /\ final_stats' = ZeroStats
    /\ result' = NoResult
    /\ full' = FALSE
    /\ pc' = [d \in Lanes |-> "idle"]
    /\ snapshot' = [d \in Lanes |-> ZeroStats]
    /\ laneErr' = [d \in Lanes |-> NoErr]
    /\ nStart' = 0 /\ nFinish' = 0 /\ finishArg' = ZeroStats
    /\ nUpdate' = 0
    /\ updateArgs' = NoUpdateArgs
    /\ nInvalid' = 0
    /\ truth' = ZeroStats
    /\ zipsSeen' = 0
    /\ owed' = [d \in Lanes |-> 0]
    /\ calls' = NoCalls
    /\ UNCHANGED <<ports, fs, ret, arg, reporter, localVars, marker, iter>>

NextFs ==
    \/ Next
    \/ Restart

SpecFs == InitFs /\ [][NextFs]_vars

\* --------------------------------------- LineProgressReporter (SpecReporter)
\* reporter = [threads, lock, writer, last_stats, started, finished]:
\* threads[t] is a caller ([pc, op, stats, left]: where it is in which
\* callback, the ExtractStats it passes, the calls it has left), lock is the
\* thread holding state's Mutex (0: none), writer is what was written, one
\* element per write call ([by, op, part, stats]: who wrote, in which
\* callback, which part of the message, and the ExtractStats a progress
\* line shows), finished counts the callbacks
\* of each kind that have returned.
Callers == 1..NumCallers
ReporterOps == {"on_start", "on_update", "on_invalid_zip", "on_finish"}
ReporterStats == {ZeroStats, increment_directories(ZeroStats)}
NoFinished ==
    [on_start |-> 0, on_update |-> 0, on_invalid_zip |-> 0, on_finish |-> 0]

others == <<ports, fs, run, prev, ret, arg, mainVars, stats, full, pc,
            localVars, snapshot, laneErr, listObs, iter, truth, notifyObs>>

InitReporter ==
    /\ ports = "dyn"
    /\ fs = EmptyFs
    /\ run = 1
    /\ prev = NoResult
    /\ ret = NoResult
    /\ arg = <<>>
    /\ reporter =
          [threads |-> [t \in Callers |->
                           [pc |-> "idle", op |-> "none", stats |-> ZeroStats,
                            left |-> MaxCalls]],
           lock |-> 0, writer |-> <<>>, last_stats |-> ZeroStats,
           started |-> FALSE, finished |-> NoFinished]
    /\ InitRun

SetThread(t, pcv, opv, sv, leftv) ==
    [reporter.threads EXCEPT ![t] =
        [pc |-> pcv, op |-> opv, stats |-> sv, left |-> leftv]]
MoveThread(t, pcv) ==
    [reporter.threads EXCEPT ![t].pc = pcv]

\* A thread calls one of the four callbacks.
LineCall(t) ==
    /\ reporter.threads[t].pc = "idle" /\ reporter.threads[t].left > 0
    /\ \E o \in ReporterOps, sv \in ReporterStats :
          reporter' = [reporter EXCEPT !.threads =
              SetThread(t, "lock", o, sv, reporter.threads[t].left - 1)]
    /\ UNCHANGED others

LineLockNoWait(t) ==
    /\ reporter.threads[t].pc = "lock"
    /\ reporter' = [reporter EXCEPT !.lock = t,
                                    !.threads = MoveThread(t, "check")]
    /\ UNCHANGED others

\* self.state.lock(): waits until no thread holds the mutex.
LineLock(t) ==
    /\ reporter.threads[t].pc = "lock"
    /\ reporter.lock = 0
    /\ reporter' = [reporter EXCEPT !.lock = t,
                                    !.threads = MoveThread(t, "check")]
    /\ UNCHANGED others

\* Mutant: on_update writes whatever the last written snapshot was.
LineSkipsStartOnly(t) ==
    reporter.threads[t].op = "on_start" /\ reporter.started

\* Early return: if state.started / if *stats == state.last_stats.
LineSkips(t) ==
    \/ reporter.threads[t].op = "on_start" /\ reporter.started
    \/ /\ reporter.threads[t].op \in {"on_update", "on_finish"}
       /\ reporter.threads[t].stats = reporter.last_stats

LineCheck(t) ==
    /\ reporter.threads[t].pc = "check"
    /\ reporter' = [reporter EXCEPT !.threads =
          MoveThread(t, IF LineSkips(t) THEN "unlock" ELSE "write")]
    /\ UNCHANGED others

\* The counters a message shows: those of stats in a progress line.
LineStats(t) ==
    IF reporter.threads[t].op \in {"on_update", "on_finish"}
    THEN reporter.threads[t].stats ELSE ZeroStats

\* write!/writeln!: the text before the first argument ...
LineWrite(t) ==
    /\ reporter.threads[t].pc = "write"
    /\ reporter' = [reporter EXCEPT
          !.writer = Append(@, [by |-> t, op |-> reporter.threads[t].op,
                                part |-> 1, stats |-> LineStats(t)]),
          !.threads = MoveThread(t, IF reporter.threads[t].op = "newline"
                                    THEN "unlock" ELSE "write_rest")]
    /\ UNCHANGED others

\* ... and the rest of the message.
LineWriteRest(t) ==
    /\ reporter.threads[t].pc = "write_rest"
    /\ reporter' = [reporter EXCEPT
          !.writer = Append(@, [by |-> t, op |-> reporter.threads[t].op,
                                part |-> 2, stats |-> LineStats(t)]),
          !.threads = MoveThread(t, "store")]
    /\ UNCHANGED others

\* state.started = true / state.last_stats = *stats
LineStore(t) ==
    /\ reporter.threads[t].pc = "store"
    /\ reporter' = [reporter EXCEPT
          !.started = IF reporter.threads[t].op = "on_start" THEN TRUE ELSE @,
          !.last_stats = IF reporter.threads[t].op \in {"on_update", "on_finish"}
                         THEN reporter.threads[t].stats ELSE @,
          !.threads = MoveThread(t, "unlock")]
    /\ UNCHANGED others

\* The guard is dropped.  on_finish has called on_update and now locks
\* again for its writeln!; the other callbacks return.
LineUnlock(t) ==
    /\ reporter.threads[t].pc = "unlock"
    /\ LET th == reporter.threads[t]
           done == IF th.op = "newline" THEN "on_finish" ELSE th.op
       IN  reporter' =
             IF th.op = "on_finish"
             THEN [reporter EXCEPT !.lock = 0,
                      !.threads = SetThread(t, "lock", "newline", th.stats, th.left)]
             ELSE [reporter EXCEPT !.lock = 0,
                      !.finished[done] = @ + 1,
                      !.threads = SetThread(t, "idle", "none", ZeroStats, th.left)]
    /\ UNCHANGED others

Line(t) ==
    \/ LineCall(t)
    \/ LineLock(t)
    \/ LineCheck(t)
    \/ LineWrite(t)
    \/ LineWriteRest(t)
    \/ LineStore(t)
    \/ LineUnlock(t)

NextReporter == \E t \in Callers : Line(t)

SpecReporter == InitReporter /\ [][NextReporter]_vars

\* ------------------------------------ the classifier alone (SpecClassify)
\* The for/match loop over a listing of up to MaxFiles of these names.
ClassifyNames ==
    {NameSafetensors, NameZipA, NameZipB, NameUpper, NameHidden,
     NameHiddenMarker, NameMixed, NameBackup, NameTarZip, NameBare,
     MODEL_INFO_FILE_NAME}
ClassifyListings ==
    UNION {{[i \in 1..n |-> PathJoin(1, ns[i])] : ns \in [1..n -> ClassifyNames]} :
              n \in 0..MaxFiles}

InitClassify ==
    /\ ports = "dyn"
    /\ fs = EmptyFs
    /\ run = 1
    /\ prev = NoResult
    /\ ret = NoResult
    /\ arg \in ClassifyListings
    /\ reporter = NoReporter
    /\ InitRun

CallClassify ==
    /\ ret = NoResult
    /\ ret' = OkVal(Classify(arg))
    /\ UNCHANGED <<ports, fs, run, prev, arg, reporter, mainVars, stats, full,
                   pc, localVars, snapshot, laneErr, listObs, iter, truth,
                   notifyObs>>

NextClassify == CallClassify

SpecClassify == InitClassify /\ [][NextClassify]_vars

\* ------------------------- FsPorts::extract_zip_entry_if_exists (SpecZip)
\* The inspector called once on <root>/a.zip with the root as output
\* directory.  The archive has up to MaxEntries entries; entry i holds the
\* bytes EntryData[i].
EntryData == <<"v1", "v2", "v3", "v4">>
EntryPaths ==
    {<<MODEL_INFO_FILE_NAME>>, <<<<"meta">>, MODEL_INFO_FILE_NAME>>,
     <<<<"readme">>>>}
EntryShapes ==
    [path : EntryPaths, is_dir : BOOLEAN, read_ok : BOOLEAN, copy_ok : BOOLEAN]
ZipEntrySeqs ==
    UNION {{[i \in 1..n |->
                [path |-> sh[i].path, is_dir |-> sh[i].is_dir,
                 read_ok |-> sh[i].read_ok, copy_ok |-> sh[i].copy_ok,
                 data |-> EntryData[i]]] : sh \in [1..n -> EntryShapes]} :
              n \in 0..MaxEntries}
ZipFiles ==
    {[name |-> NameZipA, open_ok |-> o, data |-> "za",
      zip |-> [index_ok |-> x, entries |-> es]] :
        o \in BOOLEAN, x \in BOOLEAN, es \in ZipEntrySeqs}
ZipTrees ==
    {[walk_ok |-> TRUE,
      dirs |-> <<[list_ok |-> TRUE, create_ok |-> c, files |-> pre \o <<z>>]>>] :
        c \in BOOLEAN, z \in ZipFiles,
        pre \in {<<>>, <<FsFile(MODEL_INFO_FILE_NAME, "old", NotZip)>>}}

InitZip ==
    /\ ports = "FsPorts"
    /\ fs \in ZipTrees
    /\ run = 1
    /\ prev = NoResult
    /\ ret = NoResult
    /\ arg = <<>>
    /\ reporter = NoReporter
    /\ InitRun

CallExtractZipEntryIfExists ==
    /\ ret = NoResult
    /\ \E x \in FsExtractZipEntryIfExists(fs, PathJoin(1, NameZipA),
                                          MODEL_INFO_FILE_NAME, 1) :
          /\ ret' = x.res
          /\ fs' = x.fs
    /\ UNCHANGED <<ports, run, prev, arg, reporter, mainVars, stats, full, pc,
                   localVars, snapshot, laneErr, listObs, iter, truth,
                   notifyObs>>

NextZip == CallExtractZipEntryIfExists

SpecZip == InitZip /\ [][NextZip]_vars

\* =================================================================== claims
StatsInv(s) ==
    /\ s.zip_files_checked >= s.extracted
    /\ s.safetensors_directories <= s.directories_scanned

Done == pcMain = "done"
ReturnedOk == Done /\ result.ok
ReturnedErr == Done /\ ~result.ok

\* C1: every snapshot handed to on_update, and the one handed to on_finish,
\* has zip_files_checked >= extracted and safetensors_directories <=
\* directories_scanned.
C1_EmittedSnapshotsConsistent ==
    /\ \A d \in Lanes : pc[d] = "on_update" => StatsInv(snapshot[d])
    /\ nFinish > 0 => StatsInv(finishArg)

\* C2: a run that returns Ok returns the true totals: the directories
\* enumerated, the listings holding a marker, the archives listed in those,
\* and the inspection calls that returned Extracted.
C2_FinalTotals ==
    ReturnedOk => result.val = truth

C2_Witness ==
    /\ ReturnedOk
    /\ result.val.directories_scanned = 2
    /\ result.val.safetensors_directories = 2
    /\ result.val.zip_files_checked = 2
    /\ result.val.extracted = 1

\* C3: a lane whose listing holds no .safetensors file never counts an
\* archive, never calls the inspector and never counts an extraction.
C3_NoMarkerNeverInspected ==
    /\ \A d \in Lanes :
          (pc[d] \in {"inc_zip", "inspect", "match"} \/ iter[d] # NoIter)
              => marker[d]
    /\ stats.zip_files_checked <= truth.zip_files_checked
    /\ stats.extracted <= truth.extracted

C3_Witness ==
    /\ ReturnedOk
    /\ zipsSeen = 2
    /\ truth.zip_files_checked = 0
    /\ result.val.zip_files_checked = 0

\* C4: the InvalidZip arm notifies on_invalid_zip once, with the archive
\* that was inspected and the reason returned; the archive was counted, no
\* extraction is counted, nothing fails, no other lane is touched, and the
\* lane goes on with its remaining archives.
InvalidZipStep(d) ==
    pc[d] = "match" /\ outcome[d].tag = "InvalidZip" /\ pc'[d] # "match"

C4_InvalidZipStep ==
    /\ \A d \in Lanes : InvalidZipStep(d) =>
          /\ nInvalid' = nInvalid + 1
          /\ iter'[d].notice = [zip_path |-> iter[d].call.zip_path,
                                reason |-> outcome[d].reason]
          /\ iter[d].counted
          /\ stats' = stats
          /\ pc'[d] = "load_directories"
          /\ zip_files'[d] = zip_files[d]
          /\ UNCHANGED <<full, laneErr, result, pcMain>>
          /\ \A e \in Lanes \ {d} :
                /\ pc'[e] = pc[e] /\ zip_files'[e] = zip_files[e]
                /\ zip_path'[e] = zip_path[e] /\ outcome'[e] = outcome[e]
    /\ nInvalid' # nInvalid => \E d \in Lanes : InvalidZipStep(d)
    /\ \A d \in Lanes :
          (pc[d] = "on_update" /\ iter[d].notice # NoNotice
             /\ zip_files[d] # <<>> /\ pc'[d] # "on_update")
          => pc'[d] = "inc_zip" /\ zip_path'[d] = Head(zip_files[d])

C4_InvalidZipIsolated ==
    [][C4_InvalidZipStep]_vars

C4_Witness ==
    /\ ReturnedOk
    /\ nInvalid = 1
    /\ result.val.zip_files_checked = 2
    /\ result.val.extracted = 1

\* C5: a run ends with Err only on an enumeration fault or a listing fault,
\* never because of what an inspection call returned.
C5_OnlyWalkOrListingAborts ==
    ReturnedErr => result.err.kind \in {"enum", "list"}

\* C6 (as stated): when the listing of a directory fails, the run returns
\* Err carrying that very fault, and on_finish is never called.
Failed == {d \in Active : pc[d] = "failed"}
ListingFailed == {d \in Failed : laneErr[d].kind = "list"}

C6_ErrCarriesThatFault ==
    \A d \in Lanes :
        (Done /\ d \in ListingFailed)
            => ~result.ok /\ result.err = laneErr[d] /\ nFinish = 0

\* C6 (amended): when the listing of a directory fails, the run returns Err
\* carrying the fault of one of the lanes that failed (that directory's when
\* no other lane failed), no ExtractStats, and on_finish is never called.
C6_ErrCarriesAFault ==
    (Done /\ ListingFailed # {}) =>
        /\ ~result.ok
        /\ \E e \in Failed : result.err = laneErr[e]
        /\ \A d \in ListingFailed : Failed = {d} => result.err = ListErr(directories[d])
        /\ nFinish = 0
        /\ final_stats = ZeroStats

C6_Witness ==
    /\ Done
    /\ Cardinality(ListingFailed) = 1
    /\ \E d \in Active : pc[d] = "done"
    /\ stats.directories_scanned = 2

\* C7: on_start is notified exactly once, before anything else happens; a
\* run that returns Ok has notified on_finish exactly once, with the
\* snapshot it returns, after every lane has ended, and no on_update or
\* on_invalid_zip follows it.
C7_StartFirst ==
    /\ nStart <= 1 /\ nFinish <= 1
    /\ pcMain = "start" =>
          /\ nStart = 0 /\ nFinish = 0 /\ nUpdate = 0 /\ nInvalid = 0
          /\ directories = <<>> /\ stats = ZeroStats /\ truth = ZeroStats
          /\ zipsSeen = 0 /\ \A d \in Lanes : pc[d] = "idle"
    /\ pcMain # "start" => nStart = 1
    /\ ReturnedOk => nFinish = 1 /\ finishArg = result.val
    /\ nFinish = 1 => \A d \in Active : Ended(d)

C7_FinishLast ==
    nFinish = 1 => nUpdate' = nUpdate /\ nInvalid' = nInvalid /\ nFinish' = 1

C7_StartOnceFinishLast ==
    []C7_StartFirst /\ [][C7_FinishLast]_vars

C7_Witness ==
    /\ ReturnedOk
    /\ nUpdate = 4
    /\ nInvalid = 1

\* ------------------------------------------------ reading the file system
\* The file called name in directory d, and whether there is one.
HasFile(f, d, name) ==
    \E i \in 1..Len(f.dirs[d].files) : f.dirs[d].files[i].name = name
FileNamed(f, d, name) ==
    f.dirs[d].files[CHOOSE i \in 1..Len(f.dirs[d].files) :
                        f.dirs[d].files[i].name = name]
\* The entries at which a scan for the target stops: unreadable ones and
\* files whose last path component is the target's name.
Stops(z) ==
    {i \in 1..Len(z.entries) :
        \/ ~z.entries[i].read_ok
        \/ /\ ~z.entries[i].is_dir
           /\ z.entries[i].path[Len(z.entries[i].path)] = MODEL_INFO_FILE_NAME}
FirstStop(z) == CHOOSE i \in Stops(z) : \A j \in Stops(z) : i <= j
\* The file is an archive from which the target can be read in full.
Extractable(file) ==
    /\ file.open_ok /\ file.zip.index_ok /\ Stops(file.zip) # {}
    /\ file.zip.entries[FirstStop(file.zip)].read_ok
    /\ file.zip.entries[FirstStop(file.zip)].copy_ok
TargetData(file) == file.zip.entries[FirstStop(file.zip)].data
\* Directory d holds a marker; the archives of d the target can be read from.
FsHasMarker(f, d) ==
    \E i \in 1..Len(f.dirs[d].files) :
        Extension(f.dirs[d].files[i].name) = <<"safetensors">>
FsSources(f, d) ==
    {i \in 1..Len(f.dirs[d].files) :
        /\ Extension(f.dirs[d].files[i].name) = <<"zip">>
        /\ Extractable(f.dirs[d].files[i])}

\* C8 (SpecFs): a run that returns Ok leaves, in every marker directory with
\* an archive holding the target, model_info.json with that entry's bytes
\* (a file of that name that was there before is overwritten); a further
\* run on the same tree returns Ok with the same ExtractStats; and no lane
\* ever takes model_info.json for an archive, or a directory without a
\* .safetensors file for a marker directory.
C8_RunTwiceSame ==
    /\ (pcMain = "done" /\ result.ok) =>
          \A d \in 1..Len(fs.dirs) :
              (FsHasMarker(fs, d) /\ FsSources(fs, d) # {}
                    /\ fs.dirs[d].create_ok) =>
                 /\ HasFile(fs, d, MODEL_INFO_FILE_NAME)
                 /\ \E i \in FsSources(fs, d) :
                       FileNamed(fs, d, MODEL_INFO_FILE_NAME).data
                           = TargetData(fs.dirs[d].files[i])
    /\ (run > 1 /\ pcMain = "done" /\ prev.ok) =>
          /\ result.ok
          /\ result.val = prev.val
    /\ \A d \in Lanes :
          /\ zip_path[d].name # MODEL_INFO_FILE_NAME
          /\ \A i \in 1..Len(zip_files[d]) :
                zip_files[d][i].name # MODEL_INFO_FILE_NAME
          /\ has_safetensors[d] => FsHasMarker(fs, directories[d])

\* The second run has returned what the first returned, one archive was
\* extracted, and the model_info.json that was there before both runs (the
\* first file of the root) has the archive entry's bytes.
C8_Witness ==
    /\ run = 2 /\ pcMain = "done" /\ prev.ok /\ result.ok
    /\ result.val.extracted = 1
    /\ Len(fs.dirs) >= 1 /\ Len(fs.dirs[1].files) >= 1
    /\ fs.dirs[1].files[1].name = MODEL_INFO_FILE_NAME
    /\ fs.dirs[1].files[1].data = "v1"

\* The files of a directory other than the one called name.
RECURSIVE Others(_, _)
Others(files, name) ==
    IF files = <<>> THEN <<>>
    ELSE (IF Head(files).name = name THEN <<>> ELSE <<Head(files)>>)
         \o Others(Tail(files), name)

\* Between f and g nothing but <dir>/model_info.json has changed.
OnlyOutputChanged(f, g, dir) ==
    /\ g.walk_ok = f.walk_ok
    /\ Len(g.dirs) = Len(f.dirs)
    /\ \A e \in 1..Len(f.dirs) :
          /\ g.dirs[e].list_ok = f.dirs[e].list_ok
          /\ g.dirs[e].create_ok = f.dirs[e].create_ok
          /\ IF e = dir
             THEN Others(g.dirs[e].files, MODEL_INFO_FILE_NAME)
                     = Others(f.dirs[e].files, MODEL_INFO_FILE_NAME)
             ELSE g.dirs[e].files = f.dirs[e].files

C9_Step ==
    /\ \A d \in Lanes :
          (pc[d] = "inspect" /\ pc'[d] = "match") =>
             /\ iter'[d].call.entry_name = MODEL_INFO_FILE_NAME
             /\ iter'[d].call.output_dir = directories[d]
             /\ iter'[d].call.zip_path = zip_path[d]
             /\ zip_path[d].dir = directories[d]
    /\ fs' # fs =>
          \E d \in Lanes :
             /\ pc[d] = "inspect" /\ pc'[d] = "match"
             /\ \A e \in Lanes \ {d} : pc'[e] = pc[e]
             /\ OnlyOutputChanged(fs, fs', directories[d])

\* C9 (SpecFs): every inspection call of a lane has the entry name
\* model_info.json, the lane's own directory as output directory and an
\* archive of that directory as zip path; the file system changes only in an
\* inspection step, and then only <the lane's directory>/model_info.json.
C9_WritesOnlyOwnOutput == [][C9_Step]_vars

\* The lane of the nested directory has extracted its archive: the nested
\* directory has a model_info.json, the root (a marker directory with an
\* archive of its own, not yet inspected) has none.
C9_Witness ==
    /\ Len(directories) = 2
    /\ pc[2] = "match" /\ outcome[2] = Extracted
    /\ HasFile(fs, 2, MODEL_INFO_FILE_NAME)
    /\ ~HasFile(fs, 1, MODEL_INFO_FILE_NAME)
    /\ FsHasMarker(fs, 1) /\ FsSources(fs, 1) # {}

\* The archive the inspector was called on, and the fault the call met.
ZipUnderTest == FileNamed(fs, 1, NameZipA)
FaultMet ==
    IF ~ZipUnderTest.open_ok THEN "open"
    ELSE IF ~ZipUnderTest.zip.index_ok THEN "index"
    ELSE IF Stops(ZipUnderTest.zip) = {} THEN "none"
    ELSE IF ~ZipUnderTest.zip.entries[FirstStop(ZipUnderTest.zip)].read_ok
        THEN "by_index"
    ELSE IF ~fs.dirs[1].create_ok THEN "create"
    ELSE IF ~ZipUnderTest.zip.entries[FirstStop(ZipUnderTest.zip)].copy_ok
        THEN "copy"
    ELSE "none"

\* C10 (SpecZip): FsPorts::extract_zip_entry_if_exists returns Ok whatever
\* the archive and the output directory are like; when opening the archive,
\* reading its index, reading an entry, creating the output file or copying
\* the bytes fails, it returns Ok(InvalidZip(reason)) with that failure's
\* reason, and it returns InvalidZip in no other case.
C10_InspectorNeverErr ==
    ret # NoResult =>
        /\ ret.ok
        /\ FaultMet # "none" => ret.val = InvalidZip(FaultMet)
        /\ FaultMet = "none" => ret.val.tag # "InvalidZip"

\* The call met a copy failure after the output file was created.
C10_Witness ==
    /\ ret # NoResult /\ ret.ok
    /\ FaultMet = "copy"
    /\ ret.val = InvalidZip("copy")
    /\ HasFile(fs, 1, MODEL_INFO_FILE_NAME)


\* The archive at path zp can be read in full and has no file entry whose
\* last path component is the target's name.
LacksTarget(f, zp) ==
    /\ zp.dir \in 1..Len(f.dirs) /\ HasFile(f, zp.dir, zp.name)
    /\ FileNamed(f, zp.dir, zp.name).open_ok
    /\ FileNamed(f, zp.dir, zp.name).zip.index_ok
    /\ Stops(FileNamed(f, zp.dir, zp.name).zip) = {}

C11_Step ==
    \A d \in Lanes :
        /\ (pc[d] = "inspect" /\ pc'[d] # "inspect" /\ LacksTarget(fs, zip_path[d])) =>
              /\ pc'[d] = "match" /\ outcome'[d] = NotFound
              /\ fs' = fs
              /\ stats' = stats
        /\ (pc[d] = "match" /\ pc'[d] # "match" /\ outcome[d] = NotFound) =>
              /\ pc'[d] = "load_directories"
              /\ fs' = fs
              /\ stats' = stats

\* C11 (SpecFs): the inspection of an archive of a marker directory that has
\* no entry called model_info.json returns NotFound and leaves the file
\* system as it was (no model_info.json is created, one that is there keeps
\* its bytes), and the lane's step for NotFound increments no counter.
C11_NotFoundLeavesAllAsIs == [][C11_Step]_vars

\* The only archive of the root had no target: NotFound was returned,
\* nothing was extracted, and the model_info.json that was there still has
\* its old bytes.
C11_Witness ==
    /\ Len(directories) = 1
    /\ pc[1] = "on_update" /\ zip_files[1] = <<>>
    /\ calls = [inspect |-> 1, not_found |-> 1, invalid_zip |-> 0]
    /\ snapshot[1].zip_files_checked = 1 /\ snapshot[1].extracted = 0
    /\ HasFile(fs, 1, MODEL_INFO_FILE_NAME)
    /\ FileNamed(fs, 1, MODEL_INFO_FILE_NAME).data = "old"


\* No lane has started: no listing, no increment, no inspection, no
\* on_update.
NothingStarted ==
    /\ \A d \in Lanes : pc[d] = "idle" /\ owed[d] = 0
    /\ stats = ZeroStats
    /\ zipsSeen = 0 /\ calls = NoCalls
    /\ nUpdate = 0 /\ nInvalid = 0

\* C12 (Spec): until for_each_directory has returned no lane has started
\* (no list_files_in_dir call, no counter increment, no on_update); when
\* the enumeration fails the run is over with that Err, no lane was ever
\* started, the counters are zero and on_finish was not called.
C12_EnumerationBeforeFanOut ==
    /\ pcMain \in {"start", "enumerate"} => NothingStarted
    /\ result = ErrVal(EnumErr) =>
          /\ pcMain = "done"
          /\ NothingStarted
          /\ nFinish = 0

\* The enumeration has failed after on_start.
C12_Witness ==
    /\ result = ErrVal(EnumErr)
    /\ pcMain = "done"
    /\ nStart = 1


\* C13 (Spec): a lane whose listing succeeded has, when it ends, made all
\* the on_update calls it owed at the listing (one, and one more for every
\* candidate archive of a marker directory), never more; and in a run that
\* returns Ok the number of on_update calls is directories_scanned +
\* zip_files_checked of the returned snapshot.
C13_UpdatesPerLane ==
    /\ \A d \in Lanes :
          /\ owed[d] >= 0
          /\ Ended(d) => owed[d] = 0
    /\ ReturnedOk =>
          nUpdate = result.val.directories_scanned + result.val.zip_files_checked


\* Counter c is unchanged or larger by one in the step.
StepsByOne(old, new) == new = old \/ new = old + 1

C14_Monotone ==
    /\ StepsByOne(stats.directories_scanned, stats'.directories_scanned)
    /\ StepsByOne(stats.safetensors_directories, stats'.safetensors_directories)
    /\ StepsByOne(stats.zip_files_checked, stats'.zip_files_checked)
    /\ StepsByOne(stats.extracted, stats'.extracted)

\* C14 (Spec): in every state of a run the live counters satisfy
\* zip_files_checked >= extracted and safetensors_directories <=
\* directories_scanned, and every step leaves each counter unchanged or
\* larger by one.
C14_LiveCounters == []StatsInv(stats) /\ [][C14_Monotone]_vars

\* Both lanes have counted a marker directory and both archives were
\* extracted: the two inequalities are equalities.
C14_Witness ==
    /\ stats.directories_scanned = 2 /\ stats.safetensors_directories = 2
    /\ stats.zip_files_checked = 2 /\ stats.extracted = 2


\* The name ends in a dot and e, after a stem that is not empty.
EndsInDot(name, e) ==
    /\ Len(name) >= 3
    /\ name[Len(name) - 1] = "." /\ name[Len(name)] = e
IsZipPath(path) == EndsInDot(path.name, "zip")

\* One step seen from lane d.
C15_LaneStep(d) ==
    \* the archives are those of the listing, in its order
    /\ (pc[d] = "list" /\ pc'[d] \notin {"list", "failed"}) =>
          \E r \in ListFilesInDirResults(directories[d]) :
              r.ok /\ zip_files'[d] = SelectSeq(r.val, IsZipPath)
    \* and are taken one by one from the front, after an on_update
    /\ zip_files'[d] # zip_files[d] =>
          \/ pc[d] = "list"
          \/ pc'[d] \in {"done", "failed"}
          \/ /\ pc[d] = "on_update" /\ pc'[d] = "inc_zip"
             /\ nUpdate' = nUpdate + 1
             /\ zip_files[d] = <<zip_path'[d]>> \o zip_files'[d]
    /\ zip_path'[d] # zip_path[d] =>
          \/ pc[d] = "on_update" /\ pc'[d] = "inc_zip"
          \/ pc'[d] \in {"done", "failed"}
    \* increment zip_files_checked, then the call
    /\ (pc[d] = "inc_zip" /\ pc'[d] # "inc_zip") =>
          /\ pc'[d] = "inspect"
          /\ stats' = increment_zip_files_checked(stats)
          /\ calls' = calls /\ nUpdate' = nUpdate /\ nInvalid' = nInvalid
    /\ (pc[d] = "inspect" /\ pc'[d] # "inspect") =>
          /\ pc'[d] \in {"match", "failed"}
          /\ iter[d].counted
          /\ calls'.inspect = calls.inspect + 1
          /\ pc'[d] = "match" => iter'[d].call.zip_path = zip_path[d]
          /\ stats' = stats /\ nUpdate' = nUpdate /\ nInvalid' = nInvalid
    \* then the arm of the outcome
    /\ (pc[d] = "match" /\ pc'[d] # "match") =>
          /\ pc'[d] = "load_directories"
          /\ calls' = calls /\ nUpdate' = nUpdate
          /\ outcome[d] = Extracted =>
                stats' = increment_extracted(stats) /\ nInvalid' = nInvalid
          /\ outcome[d].tag = "InvalidZip" =>
                stats' = stats /\ nInvalid' = nInvalid + 1
          /\ outcome[d] = NotFound =>
                stats' = stats /\ nInvalid' = nInvalid
    \* then the snapshot and on_update, and only then the next archive
    /\ (pc[d] \in {"load_directories", "load_safetensors", "load_zip",
                   "load_extracted"} /\ pc'[d] # pc[d]) =>
          /\ pc'[d] \in {"load_safetensors", "load_zip", "load_extracted",
                         "on_update"}
          /\ stats' = stats /\ calls' = calls
          /\ nUpdate' = nUpdate /\ nInvalid' = nInvalid
    /\ (pc'[d] = "inc_zip" /\ pc[d] # "inc_zip") => pc[d] = "on_update"

C15_Step == \A d \in Lanes : C15_LaneStep(d)

\* C15 (Spec): within a lane the candidate archives are those of the
\* listing in listing order, taken one at a time; for each the lane
\* increments zip_files_checked, then calls the inspector, then runs the arm
\* of the outcome (increment extracted | on_invalid_zip | nothing), then
\* takes the snapshot and calls on_update, and only after that on_update
\* turns to the next archive.
C15_ArchivesInOrder == [][C15_Step]_vars

\* The only lane listed b.zip before a.zip and, after b.zip's on_update, is
\* about to call the inspector for a.zip.
C15_Witness ==
    /\ Len(directories) = 1
    /\ pc[1] = "inspect" /\ zip_path[1].name = NameZipA /\ zip_files[1] = <<>>
    /\ stats.zip_files_checked = 2
    /\ calls.inspect = 1 /\ nUpdate = 2


\* C16 (SpecClassify): for every listing, has_safetensors is true iff some
\* listed name ends in ".safetensors" exactly, and zip_files is the
\* subsequence, in listing order, of the paths whose name ends in ".zip"
\* exactly; names with another case (c.ZIP, d.SafeTensors), another or no
\* extension, or nothing but the dot and the extension add to neither.
C16_ClassifyByExactExtension ==
    ret # NoResult =>
        /\ ret.val.has_safetensors
              = (\E i \in 1..Len(arg) : EndsInDot(arg[i].name, "safetensors"))
        /\ ret.val.zip_files = SelectSeq(arg, IsZipPath)
        /\ (\A i \in 1..Len(arg) :
               arg[i].name \in {NameUpper, NameMixed, NameBackup, NameBare,
                                NameHidden, NameHiddenMarker,
                                MODEL_INFO_FILE_NAME}) =>
              ret.val = [has_safetensors |-> FALSE, zip_files |-> <<>>]

\* b.zip, d.SafeTensors, a.zip: no marker, and the archives b.zip, a.zip in
\* that order.
C16_Witness ==
    /\ arg = <<PathJoin(1, NameZipB), PathJoin(1, NameMixed), PathJoin(1, NameZipA)>>
    /\ ret = OkVal([has_safetensors |-> FALSE,
                    zip_files |-> <<PathJoin(1, NameZipB), PathJoin(1, NameZipA)>>])


\* The file entries of the archive whose last path component is the
\* target's name, and the first of them in index order.
Matches(z) ==
    {i \in 1..Len(z.entries) :
        /\ ~z.entries[i].is_dir
        /\ z.entries[i].path[Len(z.entries[i].path)] = MODEL_INFO_FILE_NAME}
FirstMatch(z) == CHOOSE i \in Matches(z) : \A j \in Matches(z) : i <= j

\* C17 as stated: the first file entry with the target's base name is the
\* one written, and NotFound is returned iff there is no such entry.
C17_FirstMatchWins ==
    ret # NoResult =>
        /\ (ret = OkVal(NotFound)) <=> (Matches(ZipUnderTest.zip) = {})
        /\ Matches(ZipUnderTest.zip) # {} =>
              /\ HasFile(fs, 1, MODEL_INFO_FILE_NAME)
              /\ FileNamed(fs, 1, MODEL_INFO_FILE_NAME).data
                    = ZipUnderTest.zip.entries[FirstMatch(ZipUnderTest.zip)].data

\* C17 (amended, SpecZip): the scan goes through the entries in index order
\* and stops at the first entry that cannot be read or that is a file whose
\* last path component is the target's name (directory entries are skipped,
\* a nested path matches).  Extracted is returned iff the archive opens,
\* its index reads, the scan stops at a match and the output file can be
\* created and written, and then the output holds that entry's bytes, not
\* those of a later match; NotFound is returned iff the archive opens, its
\* index and every entry read, and no file entry has that base name; the
\* output file is never given the bytes of any other entry.
C17_FirstMatchWinsIfRead ==
    ret # NoResult =>
        LET z == ZipUnderTest.zip
            scanned == ZipUnderTest.open_ok /\ z.index_ok
        IN  /\ (ret = OkVal(NotFound)) <=> (scanned /\ Stops(z) = {})
            /\ (ret = OkVal(Extracted)) <=>
                  /\ scanned /\ Stops(z) # {}
                  /\ z.entries[FirstStop(z)].read_ok
                  /\ fs.dirs[1].create_ok
                  /\ z.entries[FirstStop(z)].copy_ok
            /\ ret = OkVal(Extracted) =>
                  /\ FirstStop(z) = FirstMatch(z)
                  /\ HasFile(fs, 1, MODEL_INFO_FILE_NAME)
                  /\ FileNamed(fs, 1, MODEL_INFO_FILE_NAME).data
                        = z.entries[FirstMatch(z)].data
            /\ HasFile(fs, 1, MODEL_INFO_FILE_NAME) =>
                  \/ FileNamed(fs, 1, MODEL_INFO_FILE_NAME).data \in {"old", ""}
                  \/ /\ Matches(z) # {}
                     /\ FileNamed(fs, 1, MODEL_INFO_FILE_NAME).data
                           = z.entries[FirstMatch(z)].data

\* A directory entry called model_info.json, then meta/model_info.json: the
\* nested file was written over the model_info.json that was there.
C17_Witness ==
    /\ ret = OkVal(Extracted)
    /\ Len(ZipUnderTest.zip.entries) = 2
    /\ ZipUnderTest.zip.entries[1].is_dir
    /\ ZipUnderTest.zip.entries[1].path = <<MODEL_INFO_FILE_NAME>>
    /\ ZipUnderTest.zip.entries[2].path = <<<<"meta">>, MODEL_INFO_FILE_NAME>>
    /\ fs.dirs[1].files[1].name = MODEL_INFO_FILE_NAME
    /\ fs.dirs[1].files[1].data = "v2"


\* A lane that has been enumerated and has not ended can take a step,
\* whatever the other lanes are doing.
NoLaneWaits ==
    \A d \in Lanes :
        (pcMain = "fanout" /\ d \in Active /\ ~Ended(d)) => ENABLED Lane(d)

\* C18 (SpecFair): every run ends; no lane ever waits for another lane;
\* and a run that has ended has either notified on_finish once and returned
\* Ok, or returned Err.
C18_Terminates ==
    /\ <>Done
    /\ []NoLaneWaits
    /\ [](Done => (ReturnedOk /\ nFinish = 1) \/ ReturnedErr)

\* A run over two marker directories with an archive each has ended with Ok.
C18_Witness ==
    /\ Done /\ ReturnedOk /\ nFinish = 1
    /\ result.val.directories_scanned = 2
    /\ result.val.zip_files_checked = 2

\* C19: LineProgressReporter under concurrent callbacks.  Every thread that
\* is past lock() and has not yet dropped its guard is the one holder of the
\* mutex, so at most one thread checks, writes or stores at a time; the
\* writes of one message are next to each other in the output, nothing of
\* another message between them; every on_invalid_zip call that has written
\* has its whole message in the output, once; and the holder of the mutex
\* is never itself waiting for it (on_finish has given it back before it
\* locks again), so whoever holds it can always go on and release it.
Guarded == {"check", "write", "write_rest", "store", "unlock"}
HoldsWhileGuarded ==
    \A t \in Callers : reporter.threads[t].pc \in Guarded <=> reporter.lock = t
WholeMessages ==
    \A i \in 1..Len(reporter.writer) :
        LET c == reporter.writer[i]
        IN  /\ (c.part = 1 /\ c.op # "newline") =>
                 IF i < Len(reporter.writer)
                 THEN reporter.writer[i + 1] = [c EXCEPT !.part = 2]
                 ELSE /\ reporter.threads[c.by].pc = "write_rest"
                      /\ reporter.threads[c.by].op = c.op
            /\ c.part = 2 =>
                 i > 1 /\ reporter.writer[i - 1] = [c EXCEPT !.part = 1]
InvalidZipWritten ==
    Cardinality({i \in 1..Len(reporter.writer) :
                    /\ reporter.writer[i].op = "on_invalid_zip"
                    /\ reporter.writer[i].part = 2})
InvalidZipPastWrite ==
    Cardinality({t \in Callers :
                    /\ reporter.threads[t].op = "on_invalid_zip"
                    /\ reporter.threads[t].pc \in {"store", "unlock"}})
HolderGoesOn ==
    /\ reporter.lock # 0 => ENABLED Line(reporter.lock)
    /\ (\E t \in Callers : reporter.threads[t].pc # "idle") => ENABLED NextReporter
C19_ReporterSafe ==
    /\ HoldsWhileGuarded
    /\ WholeMessages
    /\ InvalidZipWritten = reporter.finished.on_invalid_zip + InvalidZipPastWrite
    /\ HolderGoesOn
\* Both an on_finish and an on_invalid_zip have returned, their output is
\* there, and right now one thread waits for the mutex another one holds.
C19_Witness ==
    /\ reporter.finished.on_finish >= 1
    /\ reporter.finished.on_invalid_zip >= 1
    /\ \E i \in 1..Len(reporter.writer) : reporter.writer[i].op = "newline"
    /\ \E t \in Callers :
          /\ reporter.threads[t].pc = "lock"
          /\ reporter.lock \notin {0, t}

\* C20: in a run that returns Ok the inspector has been called once for
\* every .zip of every marker directory's listing: as many calls as there
\* are such archives, every call made by a lane of a marker directory for
\* the archive it has just counted, after which the lane goes on to the arm
\* of the outcome and never back to the call.  on_invalid_zip has been
\* notified as often as the inspector returned InvalidZip, each notification
\* consuming one such outcome, and in the returned snapshot
\* zip_files_checked = extracted + NotFound outcomes + on_invalid_zip
\* notifications.
C20_Totals ==
    ReturnedOk =>
        /\ calls.inspect = truth.zip_files_checked
        /\ nInvalid = calls.invalid_zip
        /\ result.val.zip_files_checked =
              result.val.extracted + calls.not_found + nInvalid
C20_Step ==
    /\ calls'.inspect # calls.inspect =>
          \E d \in Lanes :
              /\ pc[d] = "inspect" /\ has_safetensors[d] /\ iter[d].counted
              /\ calls'.inspect = calls.inspect + 1
              /\ pc'[d] \in {"match", "failed"}
    /\ nInvalid' # nInvalid =>
          \E d \in Lanes :
              /\ pc[d] = "match" /\ outcome[d].tag = "InvalidZip"
              /\ nInvalid' = nInvalid + 1
              /\ outcome'[d] = NoOutcome
              /\ pc'[d] = "load_directories"
C20_OneCallPerArchive == []C20_Totals /\ [][C20_Step]_vars
\* An Ok run over two archives: one call returned NotFound, the other
\* InvalidZip, which was notified.
C20_Witness ==
    /\ ReturnedOk
    /\ calls.inspect = 2 /\ calls.not_found = 1 /\ calls.invalid_zip = 1
    /\ nInvalid = 1
    /\ result.val.zip_files_checked = 2 /\ result.val.extracted = 0

\* C21: the snapshot handed to on_finish is, in each of the four fields, at
\* least the greatest value of that field in any snapshot handed to
\* on_update in the run, whatever the interleaving of the lanes and of their
\* four loads; and once on_finish has been notified no on_update follows.
\* (Between lanes the on_update snapshots may arrive out of order: see the
\* witness.)
Geq(s, t) ==
    /\ s.directories_scanned >= t.directories_scanned
    /\ s.safetensors_directories >= t.safetensors_directories
    /\ s.zip_files_checked >= t.zip_files_checked
    /\ s.extracted >= t.extracted
C21_FinishAboveUpdates ==
    /\ nFinish >= 1 => Geq(finishArg, updateArgs.max)
    /\ ReturnedOk => nFinish = 1 /\ finishArg = result.val
                     /\ Geq(result.val, updateArgs.last)
\* An Ok run in which the last on_update delivered a snapshot that is below
\* an earlier one in some field, and on_finish got one no smaller than any.
C21_Witness ==
    /\ ReturnedOk /\ nFinish = 1
    /\ nUpdate >= 2
    /\ ~Geq(updateArgs.last, updateArgs.max)
    /\ Geq(finishArg, updateArgs.max)
    /\ finishArg.zip_files_checked >= 1

\* C22 (SpecFs): in a marker directory every inspection of an archive the
\* target can be read from returns Extracted, even when the directory's
\* model_info.json was already written from another archive, and the lane's
\* step for Extracted adds one to extracted; when the lane of a marker
\* directory with several such archives has finished, model_info.json holds
\* the bytes of the target in the last of them in listing order; and the
\* stats of an Ok run have extracted = the number of such archives in the
\* marker directories, not the number of output files.
IsSource(f, zp) ==
    /\ zp.dir \in 1..Len(f.dirs) /\ HasFile(f, zp.dir, zp.name)
    /\ Extractable(FileNamed(f, zp.dir, zp.name))
LastSource(f, d) ==
    CHOOSE i \in FsSources(f, d) : \A j \in FsSources(f, d) : j <= i
AllSources(f) ==
    {<<d, i>> \in (1..Len(f.dirs)) \X (1..(MaxFiles + 1)) :
        FsHasMarker(f, d) /\ i \in FsSources(f, d)}
C22_Step ==
    \A d \in Lanes :
        /\ (pc[d] = "inspect" /\ pc'[d] # "inspect" /\ IsSource(fs, zip_path[d])
                /\ fs.dirs[directories[d]].create_ok) =>
              /\ pc'[d] = "match" /\ outcome'[d] = Extracted
              /\ FileNamed(fs', directories[d], MODEL_INFO_FILE_NAME).data
                    = TargetData(FileNamed(fs, zip_path[d].dir, zip_path[d].name))
        /\ (pc[d] = "match" /\ pc'[d] # "match" /\ outcome[d] = Extracted) =>
              stats' = increment_extracted(stats)
C22_State ==
    /\ \A d \in Lanes :
          (/\ pc[d] = "done" /\ d <= Len(directories)
           /\ FsHasMarker(fs, directories[d])
           /\ Cardinality(FsSources(fs, directories[d])) >= 2
           /\ fs.dirs[directories[d]].create_ok) =>
             /\ HasFile(fs, directories[d], MODEL_INFO_FILE_NAME)
             /\ FileNamed(fs, directories[d], MODEL_INFO_FILE_NAME).data
                   = TargetData(fs.dirs[directories[d]].files[
                                    LastSource(fs, directories[d])])
    /\ ReturnedOk => result.val.extracted = Cardinality(AllSources(fs))
C22_LastArchiveWins == []C22_State /\ [][C22_Step]_vars
\* The lane of a marker directory holding a.zip and then z.zip, both with
\* the target, has finished: two archives were extracted into one output
\* file, which has the bytes from z.zip.
C22_Witness ==
    /\ ReturnedOk /\ Len(directories) = 1 /\ pc[1] = "done"
    /\ HasFile(fs, 1, NameZipA) /\ HasFile(fs, 1, NameZipLast)
    /\ result.val.extracted = 2 /\ result.val.zip_files_checked = 2
    /\ FileNamed(fs, 1, MODEL_INFO_FILE_NAME).data = "v4"

\* C23 (SpecReporter): on_update (called directly or by on_finish) writes a
\* progress line iff its snapshot differs from the one in the last progress
\* line written (the all-zero snapshot when there is none), and then
\* records it in last_stats.  So last_stats is always the snapshot of the
\* last progress line, two successive progress lines never show the same
\* snapshot (an on_finish with the snapshot of the preceding on_update adds
\* only its newline), and the first progress line never shows the all-zero
\* snapshot.
IsProgress(c) == c.op \in {"on_update", "on_finish"} /\ c.part = 2
ProgressLines == SelectSeq(reporter.writer, IsProgress)
LastWritten ==
    IF ProgressLines = <<>> THEN ZeroStats
    ELSE ProgressLines[Len(ProgressLines)].stats
Storing(t) ==
    /\ reporter.threads[t].pc = "store"
    /\ reporter.threads[t].op \in {"on_update", "on_finish"}
C23_State ==
    /\ (\A t \in Callers : ~Storing(t)) => reporter.last_stats = LastWritten
    /\ \A i \in 1..Len(ProgressLines) :
          ProgressLines[i].stats #
              (IF i = 1 THEN ZeroStats ELSE ProgressLines[i - 1].stats)
C23_Step ==
    \A t \in Callers :
        LET th == reporter.threads[t]
        IN  /\ (th.pc = "check" /\ th.op \in {"on_update", "on_finish"}
                    /\ reporter'.threads[t].pc # "check") =>
                  /\ reporter'.writer = reporter.writer
                  /\ reporter'.threads[t].pc =
                        IF th.stats # LastWritten THEN "write" ELSE "unlock"
            /\ (th.pc = "write" /\ th.op \in {"on_update", "on_finish"}
                    /\ reporter'.threads[t].pc # "write") =>
                  /\ reporter'.threads[t].pc = "write_rest"
                  /\ Len(reporter'.writer) = Len(reporter.writer) + 1
            /\ (Storing(t) /\ reporter'.threads[t].pc # "store") =>
                  /\ reporter'.last_stats = th.stats
                  /\ reporter'.last_stats = LastWritten
C23_WritesOnlyChanges == []C23_State /\ [][C23_Step]_vars
\* An on_update with the all-zero snapshot came first and wrote nothing, an
\* on_update with another snapshot wrote its line, and an on_finish with
\* that same snapshot added only the newline.
C23_Witness ==
    /\ reporter.finished.on_update = 2
    /\ reporter.finished.on_finish = 1
    /\ Len(reporter.writer) = 3
    /\ Len(ProgressLines) = 1
    /\ ProgressLines[1].op = "on_update"
    /\ ProgressLines[1].stats = increment_directories(ZeroStats)
    /\ reporter.writer[3].op = "newline"
    /\ reporter.last_stats = increment_directories(ZeroStats)

====
